---------------------------- MODULE Spec2Model ----------------------------
(***************************************************************************)
(* A model of the surveillance-report generator (mutation_report).         *)
(*                                                                         *)
(* Encoding of the data.                                                   *)
(*  - A text file is [exists, lines]; a line that the code splits into     *)
(*    fields is [n, f]: n is the number of fields the split yields and f   *)
(*    maps the indexes the code reads to the text found there.             *)
(*  - A string is a natural number, its rank in Python's string order, so  *)
(*    that sorted() on tuples of strings is the lexicographic order on     *)
(*    tuples of numbers.  The placeholder 'xxxx' has the rank Placeholder; *)
(*    no input row carries the placeholder as a gene or a change.          *)
(*  - The text of a numeric column is [num, val]: num says whether float() *)
(*    accepts it, val is the number in thousandths (0.05 is 50, 10.0 is    *)
(*    10000, 4.999 is 4999).                                               *)
(*  - A Python name that is not bound yet is <<>>, a bound one is <<v>>.   *)
(***************************************************************************)
EXTENDS Integers, Sequences, FiniteSets, TLC

VARIABLES
    ref_arg_file,       \* the file named by -r                 (surveillance_report.py:208)
    ref_file,           \* Resistance_Rep_whocc_0218.csv        (resistance_list.py:28)
    annotation_file,    \* <sample>_Resistance_Final_annotation.txt
    lineage_file,       \* <sample>.lineage_report.txt
    loci_file,          \* the target list of reporting.cfg
    stats_file,         \* <sample>_Coverage.txt
    region_file,        \* <sample>_genome_region_coverage.txt
    deletions_file,     \* <sample>_deleted_loci.txt
    lowqual_file,       \* low_quals.txt
    now,                \* what str(datetime.datetime.now()) gives the constructor
    pc,                 \* position in the main program
    reference_list,     \* main: reference_list
    pipeline_report,    \* main: pipeline_report
    page,               \* SurveillanceReport.page: the children of the root element
    coverage,           \* main: coverage (a SampleCoverage)
    references,         \* ResistanceList.references
    targets,            \* ResistanceList.targets
    index,              \* position of the for loop of ResistanceList.__init__ in targets
    gene_record,        \* ResistanceList.__init__: gene_record
    nuc_record,         \* ResistanceList.__init__: nuc_record
    found,              \* ResistanceList.__init__: found, of the last call
    drug_list,          \* ResistanceList.__init__: drug_list, of the last call
    resistance_list,    \* ResistanceList._resistance_list
    lowquals,           \* main: lowquals (a LowQuals)
    written,            \* the report file, once write_report_xml has written it
    calls,              \* how often each method of the report has been called so far
    previous            \* what an earlier run of the program on these files wrote

files == <<ref_arg_file, ref_file, annotation_file, lineage_file, loci_file,
           stats_file, region_file, deletions_file, lowqual_file, now>>

matcher == <<references, targets, index, gene_record, nuc_record, found,
             drug_list, resistance_list>>

vars == <<files, pc, reference_list, pipeline_report, page, coverage, matcher,
          lowquals, written, calls, previous>>

----------------------------------------------------------------------------
(* Texts, lines and files *)

Num(v) == [num |-> TRUE, val |-> v]

NotNumeric == [num |-> FALSE, val |-> 0]

Line(count, fields) == [n |-> count, f |-> fields]

File(ls) == [exists |-> TRUE, lines |-> ls]

NoFile == [exists |-> FALSE, lines |-> <<>>]

\* fields[i] raises IndexError unless the split yielded more than i fields
HasField(line, i) == i < line.n

SeqsUpTo(S, k) == UNION {[1..m -> S] : m \in 0..k}

\* s[from:] of Python, from counted from 0
Slice(s, from) == IF from >= Len(s) THEN <<>> ELSE SubSeq(s, from + 1, Len(s))

----------------------------------------------------------------------------
(* sorted() on a list of namedtuples *)

\* tuple comparison a < b
LexLess(a, b) ==
    \E i \in 1..Len(a) :
        /\ i <= Len(b)
        /\ a[i] < b[i]
        /\ \A j \in 1..(i - 1) : a[j] = b[j]

RECURSIVE Insert(_, _)
Insert(sortedSeq, x) ==
    IF sortedSeq = <<>> THEN <<x>>
    ELSE IF LexLess(x, Head(sortedSeq)) THEN <<x>> \o sortedSeq
    ELSE <<Head(sortedSeq)>> \o Insert(Tail(sortedSeq), x)

RECURSIVE SortedFrom(_, _)
SortedFrom(acc, rest) ==
    IF rest = <<>> THEN acc ELSE SortedFrom(Insert(acc, Head(rest)), Tail(rest))

Sorted(s) == SortedFrom(<<>>, s)

----------------------------------------------------------------------------
(* mutation_list.py *)

PValueCutoff == 50

\* Mutation(fields[1], fields[6], fields[7], fields[0], float(fields[22]), float(fields[17]))
\* raises IndexError on a short row and ValueError on a text float() rejects
MutationRaises(line) ==
    \/ ~HasField(line, 1) \/ ~HasField(line, 6) \/ ~HasField(line, 7)
    \/ ~HasField(line, 0) \/ ~HasField(line, 22) \/ ~HasField(line, 17)
    \/ ~line.f[22].num
    \/ ~line.f[17].num

\* the namedtuple (gene, nuchange, aachange, drug, pvalue, likelihood)
Mutation(line) ==
    <<line.f[1], line.f[6], line.f[7], line.f[0], line.f[22].val, line.f[17].val>>

\* faulty variant: the cutoff itself is kept
MutationKeptAtCutoff(graded_mutation) == graded_mutation[5] <= PValueCutoff

MutationKept(graded_mutation) == graded_mutation[5] < PValueCutoff

\* faulty variant: a row that does not parse is passed over
RECURSIVE MutationLoopSkipping(_, _)
MutationLoopSkipping(lines, mutations) ==
    IF lines = <<>> THEN [raised |-> FALSE, mutations |-> mutations]
    ELSE IF MutationRaises(Head(lines)) THEN MutationLoopSkipping(Tail(lines), mutations)
    ELSE MutationLoopSkipping(Tail(lines),
                      IF MutationKept(Mutation(Head(lines)))
                      THEN Append(mutations, Mutation(Head(lines)))
                      ELSE mutations)

\* the for loop over the lines that follow the header
RECURSIVE MutationLoop(_, _)
MutationLoop(lines, mutations) ==
    IF lines = <<>> THEN [raised |-> FALSE, mutations |-> mutations]
    ELSE IF MutationRaises(Head(lines)) THEN [raised |-> TRUE, mutations |-> <<>>]
    ELSE MutationLoop(Tail(lines),
                      IF MutationKept(Mutation(Head(lines)))
                      THEN Append(mutations, Mutation(Head(lines)))
                      ELSE mutations)

MutationHeaderLines == 2

\* MutationList(reference_file): [raised, mutations]
MutationList(reference_file) ==
    IF ~reference_file.exists THEN [raised |-> TRUE, mutations |-> <<>>]
    ELSE MutationLoop(Slice(reference_file.lines, MutationHeaderLines), <<>>)

\* the property mutation_list
mutation_list(mutations) == Sorted(mutations)

----------------------------------------------------------------------------
(* sample_annotation.py *)

\* text[2:]: a text is <<its first two characters, the rest>>
StripPrefix(text) == text[2]

\* IsolateMutation(fields[16], fields[10][2:], fields[12][2:], fields[2], fields[3],
\*                 fields[4], fields[8], fields[15]) raises IndexError on a short row
IsolateMutationRaises(line) ==
    \/ ~HasField(line, 16) \/ ~HasField(line, 10) \/ ~HasField(line, 12)
    \/ ~HasField(line, 2) \/ ~HasField(line, 3) \/ ~HasField(line, 4)
    \/ ~HasField(line, 8) \/ ~HasField(line, 15)

\* the namedtuple (gene, nuchange, aachange, refpos, refnuc, altnuc, annotation, codonpos)
IsolateMutation(line) ==
    <<line.f[16], StripPrefix(line.f[10]), StripPrefix(line.f[12]), line.f[2],
      line.f[3], line.f[4], line.f[8], line.f[15]>>

RECURSIVE AnnotationLoop(_, _)
AnnotationLoop(lines, mutations) ==
    IF lines = <<>> THEN [raised |-> FALSE, mutations |-> mutations]
    ELSE IF IsolateMutationRaises(Head(lines)) THEN [raised |-> TRUE, mutations |-> <<>>]
    ELSE AnnotationLoop(Tail(lines), Append(mutations, IsolateMutation(Head(lines))))

AnnotationHeaderLines == 1

\* AnnotationList(data_dir, sample_id): [raised, mutations]
AnnotationList(results_file) ==
    IF ~results_file.exists THEN [raised |-> TRUE, mutations |-> <<>>]
    ELSE AnnotationLoop(Slice(results_file.lines, AnnotationHeaderLines), <<>>)

\* faulty variant: the list is handed out in file order
annotation_listUnsorted(mutations) == mutations

\* the property annotation_list
annotation_list(mutations) == Sorted(mutations)

----------------------------------------------------------------------------
(* resistance_list.py *)

HighCutoff == 10000

MediumCutoff == 5000

\* faulty variant: 10.0 itself is not High
confidenceAbove(lr) ==
    IF lr > HighCutoff THEN "High"
    ELSE IF lr >= MediumCutoff THEN "Medium"
    ELSE "Low"

confidence(lr) ==
    IF lr >= HighCutoff THEN "High"
    ELSE IF HighCutoff > lr /\ lr >= MediumCutoff THEN "Medium"
    ELSE "Low"

\* faulty variant: the scan stops at the first matching row
RECURSIVE DrugResistancesLoopFirst(_, _, _, _)
DrugResistancesLoopFirst(refs, target_gene, target_nuchange, drug_resistances) ==
    IF refs = <<>> THEN drug_resistances
    ELSE LET reference == Head(refs)
         IN  IF reference[1] = target_gene /\ reference[2] = target_nuchange
             THEN <<<<reference[4], confidence(reference[6])>>>>
             ELSE DrugResistancesLoopFirst(Tail(refs), target_gene, target_nuchange,
                                           drug_resistances)

\* faulty variant: the scan compares the gene alone
RECURSIVE DrugResistancesLoopGene(_, _, _, _)
DrugResistancesLoopGene(refs, target_gene, target_nuchange, drug_resistances) ==
    IF refs = <<>> THEN drug_resistances
    ELSE LET reference == Head(refs)
         IN  DrugResistancesLoopGene(Tail(refs), target_gene, target_nuchange,
                 IF reference[1] = target_gene
                 THEN Append(drug_resistances, <<reference[4], confidence(reference[6])>>)
                 ELSE drug_resistances)

\* the for loop of find_drug_resistances over self.references
RECURSIVE DrugResistancesLoop(_, _, _, _)
DrugResistancesLoop(refs, target_gene, target_nuchange, drug_resistances) ==
    IF refs = <<>> THEN drug_resistances
    ELSE LET reference == Head(refs)
         IN  DrugResistancesLoop(Tail(refs), target_gene, target_nuchange,
                 IF reference[1] = target_gene /\ reference[2] = target_nuchange
                 THEN IF Len(drug_resistances) = 0
                      THEN <<<<reference[4], confidence(reference[6])>>>>
                      ELSE Append(drug_resistances,
                                  <<reference[4], confidence(reference[6])>>)
                 ELSE drug_resistances)

\* find_drug_resistances(target_gene, target_nuchange): <<success, drug_resistances>>
find_drug_resistances(refs, target_gene, target_nuchange) ==
    LET drug_resistances == DrugResistancesLoop(refs, target_gene, target_nuchange, <<>>)
    IN  <<Len(drug_resistances) > 0, drug_resistances>>

----------------------------------------------------------------------------
(* sample_coverage.py *)

PercentCutoff == 90000

\* dict[key] = value: a dict keeps its keys in the order of their first insertion
DictSet(d, key, value) ==
    IF \E i \in 1..Len(d) : d[i][1] = key
    THEN [i \in 1..Len(d) |-> IF d[i][1] = key THEN <<key, value>> ELSE d[i]]
    ELSE Append(d, <<key, value>>)

InList(x, list) == \E i \in 1..Len(list) : list[i] = x

\* get_sample_stats: the second field of each of the first two lines; a file
\* with fewer lines gives readline() = '' and a split of one field
StatsLine(lines, i) == IF i <= Len(lines) THEN lines[i] ELSE Line(1, <<>>)

SampleStatsRaises(file) ==
    \/ ~file.exists
    \/ ~HasField(StatsLine(file.lines, 1), 1)
    \/ ~HasField(StatsLine(file.lines, 2), 1)

\* [float(fields[5]), float(fields[6])]
RegionValueRaises(line) ==
    \/ ~HasField(line, 5) \/ ~line.f[5].num
    \/ ~HasField(line, 6) \/ ~line.f[6].num

RegionValue(line) == <<line.f[5].val, line.f[6].val>>

RegionLineRaises(line, genes_of_interest) ==
    \/ ~HasField(line, 3)
    \/ InList(line.f[3], genes_of_interest) /\ RegionValueRaises(line)
    \/ ~HasField(line, 6) \/ ~line.f[6].num
    \/ line.f[6].val < PercentCutoff /\ RegionValueRaises(line)

\* faulty variant: a region at the cutoff itself counts as a gap
RECURSIVE RegionLoopAtCutoff(_, _, _, _)
RegionLoopAtCutoff(lines, genes_of_interest, coverage_dict, coverage_gaps) ==
    IF lines = <<>>
    THEN [raised |-> FALSE, coverage_dict |-> coverage_dict, coverage_gaps |-> coverage_gaps]
    ELSE LET fields == Head(lines)
         IN  IF RegionLineRaises(fields, genes_of_interest)
             THEN [raised |-> TRUE, coverage_dict |-> <<>>, coverage_gaps |-> <<>>]
             ELSE RegionLoopAtCutoff(Tail(lines), genes_of_interest,
                     IF InList(fields.f[3], genes_of_interest)
                     THEN DictSet(coverage_dict, fields.f[3], RegionValue(fields))
                     ELSE coverage_dict,
                     IF fields.f[6].val <= PercentCutoff
                     THEN Append(coverage_gaps, <<fields.f[3], RegionValue(fields)>>)
                     ELSE coverage_gaps)

\* the for loop of get_region_stats: [raised, coverage_dict, coverage_gaps]
RECURSIVE RegionLoop(_, _, _, _)
RegionLoop(lines, genes_of_interest, coverage_dict, coverage_gaps) ==
    IF lines = <<>>
    THEN [raised |-> FALSE, coverage_dict |-> coverage_dict, coverage_gaps |-> coverage_gaps]
    ELSE LET fields == Head(lines)
         IN  IF RegionLineRaises(fields, genes_of_interest)
             THEN [raised |-> TRUE, coverage_dict |-> <<>>, coverage_gaps |-> <<>>]
             ELSE RegionLoop(Tail(lines), genes_of_interest,
                     IF InList(fields.f[3], genes_of_interest)
                     THEN DictSet(coverage_dict, fields.f[3], RegionValue(fields))
                     ELSE coverage_dict,
                     IF fields.f[6].val < PercentCutoff
                     THEN Append(coverage_gaps, <<fields.f[3], RegionValue(fields)>>)
                     ELSE coverage_gaps)

RegionHeaderLines == 1

get_region_stats(file, genes_of_interest) ==
    IF ~file.exists
    THEN [raised |-> TRUE, coverage_dict |-> <<>>, coverage_gaps |-> <<>>]
    ELSE RegionLoop(Slice(file.lines, RegionHeaderLines), genes_of_interest, <<>>, <<>>)

\* faulty variant: the deletion of any gene is kept
RECURSIVE DeletionLoopAll(_, _, _)
DeletionLoopAll(lines, genes_of_interest, deletions) ==
    IF lines = <<>> THEN [raised |-> FALSE, deletions |-> deletions]
    ELSE LET fields == Head(lines)
         IN  IF ~HasField(fields, 15) THEN [raised |-> TRUE, deletions |-> <<>>]
             ELSE DeletionLoopAll(Tail(lines), genes_of_interest,
                     Append(deletions, <<fields.f[15], fields.f[8]>>))

\* the for loop of get_deletions: [raised, deletions]
RECURSIVE DeletionLoop(_, _, _)
DeletionLoop(lines, genes_of_interest, deletions) ==
    IF lines = <<>> THEN [raised |-> FALSE, deletions |-> deletions]
    ELSE LET fields == Head(lines)
         IN  IF ~HasField(fields, 15) THEN [raised |-> TRUE, deletions |-> <<>>]
             ELSE DeletionLoop(Tail(lines), genes_of_interest,
                     IF InList(fields.f[15], genes_of_interest)
                     THEN Append(deletions, <<fields.f[15], fields.f[8]>>)
                     ELSE deletions)

DeletionHeaderLines == 1

get_deletions(file, genes_of_interest) ==
    IF ~file.exists THEN [raised |-> TRUE, deletions |-> <<>>]
    ELSE DeletionLoop(Slice(file.lines, DeletionHeaderLines), genes_of_interest, <<>>)

\* SampleCoverage(data_dir, sample_id, loci_of_interest): [raised, ...]; the
\* lines of the loci file are the names its one text splits into at the commas
SampleCoverageRaises(loci, stats, regions, deleted) ==
    \/ ~loci.exists
    \/ SampleStatsRaises(stats)
    \/ get_region_stats(regions, loci.lines).raised
    \/ get_deletions(deleted, loci.lines).raised

SampleCoverage(loci, stats, regions, deleted) ==
    [genome_depth      |-> StatsLine(stats.lines, 1).f[1],
     genome_percentage |-> StatsLine(stats.lines, 2).f[1],
     coverage_dict     |-> get_region_stats(regions, loci.lines).coverage_dict,
     coverage_gaps     |-> get_region_stats(regions, loci.lines).coverage_gaps,
     deletions         |-> get_deletions(deleted, loci.lines).deletions]

----------------------------------------------------------------------------
(* low_quals.py *)

SampleName == 1

LowQualRaises(fields, sample) ==
    fields.f[0] = sample /\ ~HasField(fields, 4)

\* faulty variant: a row of five fields is kept whatever its sample
RECURSIVE LowQualLoopAnySample(_, _, _)
LowQualLoopAnySample(lines, sample, lowqual_list) ==
    IF lines = <<>> THEN [raised |-> FALSE, low_quals |-> lowqual_list]
    ELSE LET fields == Head(lines)
         IN  IF LowQualRaises(fields, sample) THEN [raised |-> TRUE, low_quals |-> <<>>]
             ELSE LowQualLoopAnySample(Tail(lines), sample,
                     IF HasField(fields, 4)
                     THEN Append(lowqual_list, <<fields.f[0], fields.f[1], fields.f[2],
                                                 fields.f[3], fields.f[4]>>)
                     ELSE lowqual_list)

RECURSIVE LowQualLoop(_, _, _)
LowQualLoop(lines, sample, lowqual_list) ==
    IF lines = <<>> THEN [raised |-> FALSE, low_quals |-> lowqual_list]
    ELSE LET fields == Head(lines)
         IN  IF LowQualRaises(fields, sample) THEN [raised |-> TRUE, low_quals |-> <<>>]
             ELSE LowQualLoop(Tail(lines), sample,
                     IF fields.f[0] = sample
                     THEN Append(lowqual_list, <<fields.f[0], fields.f[1], fields.f[2],
                                                 fields.f[3], fields.f[4]>>)
                     ELSE lowqual_list)

\* LowQuals(location, sample): [raised, low_quals]
LowQuals(file, sample) ==
    IF ~file.exists THEN [raised |-> TRUE, low_quals |-> <<>>]
    ELSE LowQualLoop(file.lines, sample, <<>>)

----------------------------------------------------------------------------
(* surveillance_report.py: class SurveillanceReport *)

\* an lxml element; text is <<>> while it is None
Element(tag, attrib, text, children) ==
    [tag |-> tag, attrib |-> attrib, text |-> text, children |-> children]

\* ET.SubElement(tag) with its text set later, if at all
Leaf(tag, text) == Element(tag, <<>>, <<text>>, <<>>)

\* the positions, among the children of self.page, of the elements __init__ keeps
lineage_elt == 5

coverage_elt == 6

coverage_gaps_elt == 7

deletions_elt == 8

mutations_elt == 9

\* faulty variant: the new element becomes the first child of its parent
SubElementFirst(pg, parent, child) == [pg EXCEPT ![parent].children = <<child>> \o @]

\* ET.SubElement(parent, ...) for a parent that is a child of self.page
SubElement(pg, parent, child) == [pg EXCEPT ![parent].children = Append(@, child)]

\* faulty variant: the time of the run is written into the title as well
NewPageStampedTitle(sample_id, stamp) ==
    << Leaf("title", <<"Sample Surveillance Report", stamp>>),
       Leaf("sample_id", sample_id),
       Leaf("date", stamp),
       Element("pipeline", <<>>, <<>>, <<Leaf("name", "UVP"), Leaf("version", "1.1")>>),
       Element("lineage", <<>>, <<>>, <<>>),
       Element("coverage", <<>>, <<>>, <<>>),
       Element("coverage_gaps", <<>>, <<>>, <<>>),
       Element("deletions", <<>>, <<>>, <<>>),
       Element("mutations", <<>>, <<>>, <<>>) >>

\* SurveillanceReport.__init__: the children of self.page; stamp is str(datetime.now())
NewPage(sample_id, stamp) ==
    << Leaf("title", "Sample Surveillance Report"),
       Leaf("sample_id", sample_id),
       Leaf("date", stamp),
       Element("pipeline", <<>>, <<>>, <<Leaf("name", "UVP"), Leaf("version", "1.1")>>),
       Element("lineage", <<>>, <<>>, <<>>),
       Element("coverage", <<>>, <<>>, <<>>),
       Element("coverage_gaps", <<>>, <<>>, <<>>),
       Element("deletions", <<>>, <<>>, <<>>),
       Element("mutations", <<>>, <<>>, <<>>) >>

\* report_lineage: the second line of the lineage report
LineageFields(file) == IF Len(file.lines) >= 2 THEN file.lines[2] ELSE Line(1, <<>>)

ReportLineageRaises(file) ==
    \/ ~file.exists
    \/ ~HasField(LineageFields(file), 3)
    \/ ~HasField(LineageFields(file), 2)

\* the page report_lineage leaves; when it raises at fields[3] the code element
\* is already in place, without a text
report_lineage(pg, file) ==
    IF ~file.exists THEN pg
    ELSE IF ~HasField(LineageFields(file), 3)
    THEN SubElement(pg, lineage_elt, Element("code", <<>>, <<>>, <<>>))
    ELSE SubElement(SubElement(pg, lineage_elt, Leaf("code", LineageFields(file).f[3])),
                    lineage_elt, Leaf("name", LineageFields(file).f[2]))

\* <gene name=...><depth/><percent/></gene>
CoverageGene(name, value) ==
    Element("gene", <<<<"name", name>>>>, <<>>,
            <<Leaf("depth", value[1]), Leaf("percent", value[2])>>)

RECURSIVE AddCoverageItems(_, _)
AddCoverageItems(pg, items) ==
    IF items = <<>> THEN pg
    ELSE AddCoverageItems(
             SubElement(pg, coverage_elt, CoverageGene(Head(items)[1], Head(items)[2])),
             Tail(items))

add_coverage_section(pg, coverage_map, genome_coverage) ==
    AddCoverageItems(
        SubElement(pg, coverage_elt, CoverageGene("whole_genome", genome_coverage)),
        coverage_map)

\* faulty variant: the gaps are written to the coverage element
RECURSIVE add_coverage_gaps_sectionShared(_, _)
add_coverage_gaps_sectionShared(pg, gap_map) ==
    IF gap_map = <<>> THEN pg
    ELSE add_coverage_gaps_sectionShared(
             SubElement(pg, coverage_elt,
                        CoverageGene(Head(gap_map)[1], Head(gap_map)[2])),
             Tail(gap_map))

RECURSIVE add_coverage_gaps_section(_, _)
add_coverage_gaps_section(pg, gap_map) ==
    IF gap_map = <<>> THEN pg
    ELSE add_coverage_gaps_section(
             SubElement(pg, coverage_gaps_elt,
                        CoverageGene(Head(gap_map)[1], Head(gap_map)[2])),
             Tail(gap_map))

DeletionLoci(delete) ==
    Element("loci", <<<<"name", delete[1]>>>>, <<>>, <<Leaf("type", delete[2])>>)

RECURSIVE add_deletions_section(_, _)
add_deletions_section(pg, deletion_list) ==
    IF deletion_list = <<>> THEN pg
    ELSE add_deletions_section(
             SubElement(pg, deletions_elt, DeletionLoci(Head(deletion_list))),
             Tail(deletion_list))

Segment(segment) ==
    Element("segment", <<<<"refpos", segment[2]>>>>, <<>>,
            <<Leaf("ref", segment[3]), Leaf("alt", segment[4]),
              Leaf("qual_det", segment[5])>>)

\* faulty variant: the low_quality element is put in front of the mutations
add_low_quality_sectionAhead(pg, low_qual_list) ==
    SubSeq(pg, 1, mutations_elt - 1)
    \o <<Element("low_quality", <<>>, <<>>,
                 [i \in 1..Len(low_qual_list) |-> Segment(low_qual_list[i])])>>
    \o SubSeq(pg, mutations_elt, Len(pg))

\* add_low_quality_section: a new low_quality element, last child of self.page
add_low_quality_section(pg, low_qual_list) ==
    Append(pg, Element("low_quality", <<>>, <<>>,
                       [i \in 1..Len(low_qual_list) |-> Segment(low_qual_list[i])]))

\* <resistance><drug/><confidence/></resistance>
Resistance(drug) ==
    Element("resistance", <<>>, <<>>, <<Leaf("drug", drug[1]), Leaf("confidence", drug[2])>>)

\* resistance_record[5] raises IndexError, outside the try, on a record shorter than
\* the seven fields of an observed change (the placeholder record has five)
RecordRaises(resistance_record) == Len(resistance_record) < 7

\* faulty variant: every drug list of the record is written out
RecordDrugsOfEveryList(resistance_record) ==
    IF Len(resistance_record) >= 8
    THEN [i \in 1..(Len(resistance_record[8]) * (Len(resistance_record) - 7)) |->
             Resistance(resistance_record[8][((i - 1) % Len(resistance_record[8])) + 1])]
    ELSE <<>>

\* for drug in resistance_record[7]: the IndexError of a record without an eighth
\* entry is caught and the record gets no resistance element
RecordDrugs(resistance_record) ==
    IF Len(resistance_record) >= 8
    THEN [i \in 1..Len(resistance_record[8]) |-> Resistance(resistance_record[8][i])]
    ELSE <<>>

Nuchange(resistance_record) ==
    Element("nuchange",
            <<<<"name", resistance_record[1]>>, <<"aachange", resistance_record[2]>>>>,
            <<>>,
            << Leaf("annotation", resistance_record[6]),
               Leaf("codonpos", resistance_record[7]),
               Leaf("refpos", resistance_record[3]),
               Leaf("refnuc", resistance_record[4]),
               Leaf("altnuc", resistance_record[5]) >>
            \o RecordDrugs(resistance_record))

\* the nuchange element as it is when resistance_record[5] raises
NuchangeCut(resistance_record) ==
    Element("nuchange",
            <<<<"name", resistance_record[1]>>, <<"aachange", resistance_record[2]>>>>,
            <<>>, <<Element("annotation", <<>>, <<>>, <<>>)>>)

\* the inner loop of add_mutation_list_section: [raised, elts]
RECURSIVE NuchangeLoop(_, _)
NuchangeLoop(records, elts) ==
    IF records = <<>> THEN [raised |-> FALSE, elts |-> elts]
    ELSE IF RecordRaises(Head(records))
    THEN [raised |-> TRUE, elts |-> Append(elts, NuchangeCut(Head(records)))]
    ELSE NuchangeLoop(Tail(records), Append(elts, Nuchange(Head(records))))

Snp(resistance) ==
    Element("snp", <<<<"gene", resistance[1]>>>>, <<>>,
            NuchangeLoop(Tail(resistance), <<>>).elts)

\* add_mutation_list_section: [raised, page]
RECURSIVE add_mutation_list_section(_, _)
add_mutation_list_section(pg, resistance_mutations) ==
    IF resistance_mutations = <<>> THEN [raised |-> FALSE, page |-> pg]
    ELSE LET resistance == Head(resistance_mutations)
             next == SubElement(pg, mutations_elt, Snp(resistance))
         IN  IF NuchangeLoop(Tail(resistance), <<>>).raised
             THEN [raised |-> TRUE, page |-> next]
             ELSE add_mutation_list_section(next, Tail(resistance_mutations))

----------------------------------------------------------------------------
(* resistance_list.py: ResistanceList.__init__ *)

Placeholder == 0

\* [target.nuchange, target.aachange, target.refpos, target.refnuc, target.altnuc,
\*  target.annotation, target.codonpos]
NucRecord(target) ==
    <<target[2], target[3], target[4], target[5], target[6], target[7], target[8]>>

\* faulty variant: a record of the seven observed fields counts as complete
HasSevenFields(record) == Len(record) >= 7

\* len(nuc_record) > 7: the record carries at least one drug list
HasDrugList(record) == Len(record) > 7

\* faulty variant: a finished group goes to the front of the result
GeneChangePrepending(st, target) ==
    IF target[1] # st.gene_record[1]
    THEN [resistance_list |->
              IF HasDrugList(st.nuc_record)
              THEN <<Append(st.gene_record, st.nuc_record)>> \o st.resistance_list
              ELSE st.resistance_list,
          gene_record |-> <<target[1]>>,
          nuc_record  |-> NucRecord(target)]
    ELSE st

\* lines 35-41: the gene of the target differs from the gene of gene_record
GeneChange(st, target) ==
    IF target[1] # st.gene_record[1]
    THEN [resistance_list |->
              IF HasDrugList(st.nuc_record)
              THEN Append(st.resistance_list, Append(st.gene_record, st.nuc_record))
              ELSE st.resistance_list,
          gene_record |-> <<target[1]>>,
          nuc_record  |-> NucRecord(target)]
    ELSE st

\* lines 42-45: the change of the target differs from the change of nuc_record
NucChange(st, target) ==
    IF target[2] # st.nuc_record[1]
    THEN [st EXCEPT !.gene_record = Append(st.gene_record, st.nuc_record),
                    !.nuc_record  = NucRecord(target)]
    ELSE st

\* faulty variant: the drug list is attached whether or not a row matched
AttachDrugsAlways(st, success, drugs) ==
    [st EXCEPT !.nuc_record = Append(st.nuc_record, drugs)]

\* lines 46-48
AttachDrugs(st, success, drugs) ==
    IF success THEN [st EXCEPT !.nuc_record = Append(st.nuc_record, drugs)] ELSE st

----------------------------------------------------------------------------
(* The main program, surveillance_report.py:211-226 *)

\* the methods of SurveillanceReport that build the page
Methods ==
    {"report_lineage", "add_coverage_section", "add_coverage_gaps_section",
     "add_deletions_section", "add_mutation_list_section", "add_low_quality_section"}

NoCalls == [m \in Methods |-> 0]

\* the method is entered once more
Called(method) == calls' = [calls EXCEPT ![method] = @ + 1]

Start ==
    /\ pc = "reference_list"
    /\ reference_list = <<>>
    /\ pipeline_report = <<>>
    /\ page = <<>>
    /\ coverage = <<>>
    /\ references = <<>>
    /\ targets = <<>>
    /\ index = 0
    /\ gene_record = <<>>
    /\ nuc_record = <<>>
    /\ found = FALSE
    /\ drug_list = <<>>
    /\ resistance_list = <<>>
    /\ lowquals = <<>>
    /\ written = <<>>
    /\ calls = NoCalls
    /\ previous = <<>>

\* an uncaught exception ends the program
Abort == pc' = "aborted"

\* reference_list = MutationList(reference_mutation_list)
LoadReferenceList ==
    /\ pc = "reference_list"
    /\ LET loaded == MutationList(ref_arg_file)
       IN  IF loaded.raised
           THEN Abort /\ UNCHANGED reference_list
           ELSE pc' = "pipeline_report" /\ reference_list' = <<loaded.mutations>>
    /\ UNCHANGED <<files, pipeline_report, page, coverage, matcher, lowquals, written>>
    /\ UNCHANGED <<calls, previous>>

\* pipeline_report = AnnotationList(data_directory, sample_name)
LoadPipelineReport ==
    /\ pc = "pipeline_report"
    /\ LET loaded == AnnotationList(annotation_file)
       IN  IF loaded.raised
           THEN Abort /\ UNCHANGED pipeline_report
           ELSE pc' = "report" /\ pipeline_report' = <<loaded.mutations>>
    /\ UNCHANGED <<files, reference_list, page, coverage, matcher, lowquals, written>>
    /\ UNCHANGED <<calls, previous>>

\* report = SurveillanceReport(data_directory, sample_name)
NewReport ==
    /\ pc = "report"
    /\ page' = NewPage(SampleName, now)
    /\ pc' = "report_lineage"
    /\ UNCHANGED <<files, reference_list, pipeline_report, coverage, matcher, lowquals,
                   written>>
    /\ UNCHANGED <<calls, previous>>

\* faulty variant: the exception of report_lineage is swallowed
ReportLineageSwallowing ==
    /\ pc = "report_lineage"
    /\ page' = report_lineage(page, lineage_file)
    /\ pc' = "coverage"
    /\ UNCHANGED <<files, reference_list, pipeline_report, coverage, matcher, lowquals,
                   written>>
    /\ Called("report_lineage")
    /\ UNCHANGED previous

\* report.report_lineage()
ReportLineage ==
    /\ pc = "report_lineage"
    /\ page' = report_lineage(page, lineage_file)
    /\ IF ReportLineageRaises(lineage_file) THEN Abort ELSE pc' = "coverage"
    /\ UNCHANGED <<files, reference_list, pipeline_report, coverage, matcher, lowquals,
                   written>>
    /\ Called("report_lineage")
    /\ UNCHANGED previous

\* coverage = SampleCoverage(data_directory, sample_name, target_file)
LoadCoverage ==
    /\ pc = "coverage"
    /\ IF SampleCoverageRaises(loci_file, stats_file, region_file, deletions_file)
       THEN Abort /\ UNCHANGED coverage
       ELSE /\ pc' = "mutations"
            /\ coverage' = <<SampleCoverage(loci_file, stats_file, region_file,
                                            deletions_file)>>
    /\ UNCHANGED <<files, reference_list, pipeline_report, page, matcher, lowquals,
                   written>>
    /\ UNCHANGED <<calls, previous>>

\* mutations = ResistanceList(data_directory, sample_name), lines 27-33
ResistanceListLoad ==
    /\ pc = "mutations"
    /\ LET reference_table == MutationList(ref_file)
           isolate_annotations == AnnotationList(annotation_file)
       IN  IF reference_table.raised \/ isolate_annotations.raised
           THEN Abort /\ UNCHANGED matcher
           ELSE /\ pc' = "match"
                /\ references' = mutation_list(reference_table.mutations)
                /\ targets' = annotation_list(isolate_annotations.mutations)
                /\ index' = 1
                /\ gene_record' = <<Placeholder>>
                /\ nuc_record' = <<Placeholder, Placeholder, Placeholder, Placeholder,
                                   Placeholder>>
                /\ resistance_list' = <<>>
                /\ UNCHANGED <<found, drug_list>>
    /\ UNCHANGED <<files, reference_list, pipeline_report, page, coverage, lowquals,
                   written>>
    /\ UNCHANGED <<calls, previous>>

\* one turn of the for loop, lines 34-48
MatchTarget ==
    /\ pc = "match"
    /\ index <= Len(targets)
    /\ LET target == targets[index]
           result == find_drug_resistances(references, target[1], target[2])
           st     == AttachDrugs(
                         NucChange(
                             GeneChange([resistance_list |-> resistance_list,
                                         gene_record |-> gene_record,
                                         nuc_record |-> nuc_record], target),
                             target),
                         result[1], result[2])
       IN  /\ found' = result[1]
           /\ drug_list' = result[2]
           /\ resistance_list' = st.resistance_list
           /\ gene_record' = st.gene_record
           /\ nuc_record' = st.nuc_record
    /\ index' = index + 1
    /\ UNCHANGED <<files, pc, reference_list, pipeline_report, page, coverage,
                   references, targets, lowquals, written>>
    /\ UNCHANGED <<calls, previous>>

\* faulty variant: the group that is open when the loop ends is appended as well
MatchReturnFlushing ==
    /\ pc = "match"
    /\ index > Len(targets)
    /\ pc' = "lowquals"
    /\ resistance_list' = IF HasDrugList(nuc_record)
                          THEN Append(resistance_list, Append(gene_record, nuc_record))
                          ELSE resistance_list
    /\ UNCHANGED <<files, reference_list, pipeline_report, page, coverage, references,
                   targets, index, gene_record, nuc_record, found, drug_list, lowquals,
                   written>>
    /\ UNCHANGED <<calls, previous>>

\* the loop has run out of targets: the constructor returns
MatchReturn ==
    /\ pc = "match"
    /\ index > Len(targets)
    /\ pc' = "lowquals"
    /\ UNCHANGED <<files, reference_list, pipeline_report, page, coverage, matcher,
                   lowquals, written>>
    /\ UNCHANGED <<calls, previous>>

\* lowquals = LowQuals(data_directory, sample_name)
LoadLowQuals ==
    /\ pc = "lowquals"
    /\ LET loaded == LowQuals(lowqual_file, SampleName)
       IN  IF loaded.raised
           THEN Abort /\ UNCHANGED lowquals
           ELSE pc' = "add_coverage_section" /\ lowquals' = <<loaded.low_quals>>
    /\ UNCHANGED <<files, reference_list, pipeline_report, page, coverage, matcher,
                   written>>
    /\ UNCHANGED <<calls, previous>>

AddCoverageSection ==
    /\ pc = "add_coverage_section"
    /\ page' = add_coverage_section(page, coverage[1].coverage_dict,
                   <<coverage[1].genome_depth, coverage[1].genome_percentage>>)
    /\ pc' = "add_coverage_gaps_section"
    /\ UNCHANGED <<files, reference_list, pipeline_report, coverage, matcher, lowquals,
                   written>>
    /\ Called("add_coverage_section")
    /\ UNCHANGED previous

AddCoverageGapsSection ==
    /\ pc = "add_coverage_gaps_section"
    /\ page' = add_coverage_gaps_section(page, coverage[1].coverage_gaps)
    /\ pc' = "add_deletions_section"
    /\ UNCHANGED <<files, reference_list, pipeline_report, coverage, matcher, lowquals,
                   written>>
    /\ Called("add_coverage_gaps_section")
    /\ UNCHANGED previous

AddDeletionsSection ==
    /\ pc = "add_deletions_section"
    /\ page' = add_deletions_section(page, coverage[1].deletions)
    /\ pc' = "add_mutation_list_section"
    /\ UNCHANGED <<files, reference_list, pipeline_report, coverage, matcher, lowquals,
                   written>>
    /\ Called("add_deletions_section")
    /\ UNCHANGED previous

AddMutationListSection ==
    /\ pc = "add_mutation_list_section"
    /\ LET built == add_mutation_list_section(page, resistance_list)
       IN  /\ page' = built.page
           /\ IF built.raised THEN Abort ELSE pc' = "add_low_quality_section"
    /\ UNCHANGED <<files, reference_list, pipeline_report, coverage, matcher, lowquals,
                   written>>
    /\ Called("add_mutation_list_section")
    /\ UNCHANGED previous

AddLowQualitySection ==
    /\ pc = "add_low_quality_section"
    /\ page' = add_low_quality_section(page, lowquals[1])
    /\ pc' = "write_report_xml"
    /\ UNCHANGED <<files, reference_list, pipeline_report, coverage, matcher, lowquals,
                   written>>
    /\ Called("add_low_quality_section")
    /\ UNCHANGED previous

\* report.write_report_xml(sample_name + '_report.xml')
WriteReportXml ==
    /\ pc = "write_report_xml"
    /\ written' = <<page>>
    /\ pc' = "done"
    /\ UNCHANGED <<files, reference_list, pipeline_report, page, coverage, matcher,
                   lowquals>>
    /\ UNCHANGED <<calls, previous>>

Next ==
    \/ LoadReferenceList
    \/ LoadPipelineReport
    \/ NewReport
    \/ ReportLineage
    \/ LoadCoverage
    \/ ResistanceListLoad
    \/ MatchTarget
    \/ MatchReturn
    \/ LoadLowQuals
    \/ AddCoverageSection
    \/ AddCoverageGapsSection
    \/ AddDeletionsSection
    \/ AddMutationListSection
    \/ AddLowQualitySection
    \/ WriteReportXml

----------------------------------------------------------------------------
(* Input files *)

\* a line whose fields the code never reads
Header == Line(1, (0 :> 0))

\* a row of the reference table: drug, gene, nuc_change, aa_change, likelihood, p-value
RefLine(drug, gene, nuchange, aachange, likelihood, pvalue) ==
    Line(23, (0 :> drug @@ 1 :> gene @@ 6 :> nuchange @@ 7 :> aachange
              @@ 17 :> likelihood @@ 22 :> pvalue))

\* a row that ends before the likelihood column
ShortRefLine == Line(8, (0 :> 1 @@ 1 :> 1 @@ 6 :> 1 @@ 7 :> 1))

RefFilesOver(rows, k) ==
    {File(<<Header, Header>> \o data) : data \in SeqsUpTo(rows, k)}

\* a row of the annotation table of the isolate, its changes behind a two-letter prefix
AnnotLine(gene, nuchange, aachange) ==
    Line(17, (2 :> nuchange @@ 3 :> 1 @@ 4 :> 2 @@ 8 :> 1 @@ 10 :> <<"c.", nuchange>>
              @@ 12 :> <<"p.", aachange>> @@ 15 :> 1 @@ 16 :> gene))

\* a row that ends before the gene column
ShortAnnotLine == Line(10, (2 :> 1 @@ 3 :> 1 @@ 4 :> 2 @@ 8 :> 1))

AnnotFilesOver(rows, k) == {File(<<Header>> \o data) : data \in SeqsUpTo(rows, k)}

GoodRefFile == File(<<Header, Header, RefLine(1, 1, 1, 1, Num(12000), Num(10))>>)

GoodAnnotFile == File(<<Header, AnnotLine(1, 1, 1), AnnotLine(2, 1, 1)>>)

GoodLineageFile ==
    File(<<Header, Line(4, (0 :> "s" @@ 1 :> "x" @@ 2 :> "Euro-American" @@ 3 :> "4"))>>)

ShortLineageFile == File(<<Header, Line(3, (0 :> "s" @@ 1 :> "x" @@ 2 :> "Euro-American"))>>)

GoodLociFile == File(<<1, 2>>)

GoodStatsFile == File(<<Line(2, (0 :> "depth" @@ 1 :> "80.5")),
                        Line(2, (0 :> "percent" @@ 1 :> "99.1"))>>)

ShortStatsFile == File(<<Line(2, (0 :> "depth" @@ 1 :> "80.5"))>>)

RegionLine(gene, depth, percent) == Line(7, (3 :> gene @@ 5 :> depth @@ 6 :> percent))

GoodRegionFile ==
    File(<<Header, RegionLine(1, Num(50000), Num(85000)),
           RegionLine(3, Num(60000), Num(99000))>>)

BadRegionFile == File(<<Header, RegionLine(1, Num(50000), NotNumeric)>>)

DeletionLine(gene, type) == Line(16, (8 :> type @@ 15 :> gene))

GoodDeletionsFile ==
    File(<<Header, DeletionLine(2, "complete"), DeletionLine(3, "partial")>>)

ShortDeletionsFile == File(<<Header, Line(9, (8 :> "complete"))>>)

LowQualLine(sample, refpos) ==
    Line(5, (0 :> sample @@ 1 :> refpos @@ 2 :> "A" @@ 3 :> "G" @@ 4 :> "LowQual"))

GoodLowQualFile == File(<<LowQualLine(SampleName, "100"), LowQualLine(2, "200")>>)

ShortLowQualFile == File(<<Line(2, (0 :> SampleName @@ 1 :> "100"))>>)

\* the tables the matcher does not read, all well-formed
GoodTables ==
    /\ lineage_file = GoodLineageFile
    /\ loci_file = GoodLociFile
    /\ stats_file = GoodStatsFile
    /\ region_file = GoodRegionFile
    /\ deletions_file = GoodDeletionsFile
    /\ lowqual_file = GoodLowQualFile
    /\ now = "2018-05-07 10:00:00"

----------------------------------------------------------------------------
(* Spec: the matcher on every observed table and every reference table of a few rows *)

MaxObserved == 3

MaxReference == 2

\* two changes in each of two genes, and a third gene behind them
MatchAnnotRows ==
    {AnnotLine(g, n, 1) : g \in {1, 2}, n \in {1, 2}} \cup {AnnotLine(3, 1, 1)}

\* each gene and change has a drug of its own
MatchRefRows ==
    {RefLine(2 * gn[1] + gn[2], gn[1], gn[2], 1, Num(12000), Num(10)) :
        gn \in {<<1, 1>>, <<1, 2>>, <<2, 1>>}}

Init ==
    /\ ref_arg_file = GoodRefFile
    /\ ref_file \in RefFilesOver(MatchRefRows, MaxReference)
    /\ annotation_file \in AnnotFilesOver(MatchAnnotRows, MaxObserved)
    /\ GoodTables
    /\ Start

Spec == Init /\ [][Next]_vars

----------------------------------------------------------------------------
(* SpecRef: the reference table in full, with one observed change *)

MaxRefRows == 2

MaxRefObserved == 1

RefNumbers == {Num(4999), Num(5000), Num(10000), Num(12000)}

\* significant rows of every drug, change and likelihood; rows at the cutoff of
\* the p-value; rows that do not parse
RefRows ==
    {RefLine(d, 1, n, 1, lr, Num(49)) : d \in {1, 2}, n \in {1, 2}, lr \in RefNumbers}
    \cup {RefLine(d, 1, 1, 1, Num(12000), Num(50)) : d \in {1, 2}}
    \cup {RefLine(1, 1, 1, 1, NotNumeric, Num(49)), RefLine(1, 1, 1, 1, Num(10000), NotNumeric),
          ShortRefLine}

InitRef ==
    /\ ref_arg_file = GoodRefFile
    /\ ref_file \in RefFilesOver(RefRows, MaxRefRows)
    /\ annotation_file \in AnnotFilesOver({AnnotLine(1, 1, 1)}, MaxRefObserved)
    /\ GoodTables
    /\ Start

SpecRef == InitRef /\ [][Next]_vars

----------------------------------------------------------------------------
(* SpecLoad: tables with malformed rows among the well-formed ones; the file *)
(* named on the command line is the one the matcher opens                   *)

MaxLoadRows == 3

LoadRefRows ==
    {RefLine(1, 1, 1, 1, Num(12000), Num(10)), RefLine(2, 1, 1, 1, Num(6000), Num(60)),
     RefLine(1, 1, 1, 1, NotNumeric, Num(10)), RefLine(1, 1, 1, 1, Num(12000), NotNumeric),
     ShortRefLine}

LoadAnnotRows == {AnnotLine(1, 1, 1), AnnotLine(2, 1, 1), ShortAnnotLine}

InitLoad ==
    /\ ref_arg_file \in RefFilesOver(LoadRefRows, MaxLoadRows) \cup {NoFile}
    /\ ref_file = ref_arg_file
    /\ annotation_file \in AnnotFilesOver(LoadAnnotRows, MaxLoadRows) \cup {NoFile}
    /\ GoodTables
    /\ Start

SpecLoad == InitLoad /\ [][Next]_vars

----------------------------------------------------------------------------
(* SpecMain: every table of the program well-formed, malformed or missing *)

BadRefFile == File(<<Header, Header, RefLine(1, 1, 1, 1, NotNumeric, Num(10))>>)

BadAnnotFile == File(<<Header, AnnotLine(1, 1, 1), ShortAnnotLine>>)

InitMain ==
    /\ ref_arg_file \in {GoodRefFile, BadRefFile, NoFile}
    /\ ref_file \in {GoodRefFile, BadRefFile, NoFile}
    /\ annotation_file \in {GoodAnnotFile, BadAnnotFile, NoFile}
    /\ lineage_file \in {GoodLineageFile, ShortLineageFile, NoFile}
    /\ loci_file \in {GoodLociFile, NoFile}
    /\ stats_file \in {GoodStatsFile, ShortStatsFile, NoFile}
    /\ region_file \in {GoodRegionFile, BadRegionFile, NoFile}
    /\ deletions_file \in {GoodDeletionsFile, ShortDeletionsFile, NoFile}
    /\ lowqual_file \in {GoodLowQualFile, ShortLowQualFile, NoFile}
    /\ now \in {"2018-05-07 10:00:00", "2018-05-08 11:30:00"}
    /\ Start

SpecMain == InitMain /\ [][Next]_vars

----------------------------------------------------------------------------
(* SpecReport: a SurveillanceReport fresh from its constructor, its methods    *)
(* called in any order and any number of times on the data of their callers   *)

MaxCalls == 2

\* what a SampleCoverage hands to the report: maps whose genes the mutation
\* lists below do not name
CoverageInputs ==
    { [genome_depth |-> "80.5", genome_percentage |-> "99.1",
       coverage_dict |-> <<<<1, <<50000, 85000>>>>, <<2, <<60000, 99000>>>>>>,
       coverage_gaps |-> <<<<1, <<50000, 85000>>>>, <<3, <<10000, 40000>>>>>>,
       deletions |-> <<<<2, "complete">>, <<1, "partial">>>>],
      [genome_depth |-> "12.0", genome_percentage |-> "70.2",
       coverage_dict |-> <<<<2, <<60000, 99000>>>>>>,
       coverage_gaps |-> <<<<3, <<10000, 40000>>>>>>,
       deletions |-> <<<<1, "partial">>>>],
      [genome_depth |-> "80.5", genome_percentage |-> "99.1",
       coverage_dict |-> <<>>, coverage_gaps |-> <<>>, deletions |-> <<>>] }

\* a change record with the drug list of two matching rows, one without a match,
\* and the five fields of the placeholder
MatchedRecord == <<1, 1, 1, 1, 2, 1, 1, <<<<3, "High">>, <<4, "Low">>>>>>

UnmatchedRecord == <<2, 1, 1, 1, 2, 1, 1>>

PlaceholderRecord == <<Placeholder, Placeholder, Placeholder, Placeholder, Placeholder>>

\* what a ResistanceList hands to the report
MutationInputs ==
    { << <<7, UnmatchedRecord, MatchedRecord>>, <<8, MatchedRecord>> >>,
      << <<8, MatchedRecord>> >>,
      << <<7, MatchedRecord>>, <<Placeholder, PlaceholderRecord, MatchedRecord>>,
         <<8, MatchedRecord>> >> }

\* what a LowQuals hands to the report
LowQualInputs ==
    { << <<SampleName, "100", "A", "G", "LowQual">>,
         <<SampleName, "200", "C", "T", "LowQual">> >>,
      << <<SampleName, "300", "A", "T", "LowQual">> >> }

InitReport ==
    /\ ref_arg_file = GoodRefFile
    /\ ref_file = GoodRefFile
    /\ annotation_file = GoodAnnotFile
    /\ GoodTables
    /\ pc = "assemble"
    /\ reference_list = <<>>
    /\ pipeline_report = <<>>
    /\ page = NewPage(SampleName, now)
    /\ coverage \in {<<c>> : c \in CoverageInputs}
    /\ references = <<>>
    /\ targets = <<>>
    /\ index = 0
    /\ gene_record = <<>>
    /\ nuc_record = <<>>
    /\ found = FALSE
    /\ drug_list = <<>>
    /\ resistance_list \in MutationInputs
    /\ lowquals \in {<<l>> : l \in LowQualInputs}
    /\ written = <<>>
    /\ calls = NoCalls
    /\ previous = <<>>

\* what a call of a method of the report leaves alone
held == <<files, pc, reference_list, pipeline_report, coverage, matcher, lowquals,
          written, previous>>

\* the caller may call the method now
MayCall(method) == pc = "assemble" /\ calls[method] < MaxCalls

CallReportLineage ==
    /\ MayCall("report_lineage")
    /\ page' = report_lineage(page, lineage_file)
    /\ Called("report_lineage")
    /\ UNCHANGED held

CallAddCoverageSection ==
    /\ MayCall("add_coverage_section")
    /\ page' = add_coverage_section(page, coverage[1].coverage_dict,
                   <<coverage[1].genome_depth, coverage[1].genome_percentage>>)
    /\ Called("add_coverage_section")
    /\ UNCHANGED held

CallAddCoverageGapsSection ==
    /\ MayCall("add_coverage_gaps_section")
    /\ page' = add_coverage_gaps_section(page, coverage[1].coverage_gaps)
    /\ Called("add_coverage_gaps_section")
    /\ UNCHANGED held

CallAddDeletionsSection ==
    /\ MayCall("add_deletions_section")
    /\ page' = add_deletions_section(page, coverage[1].deletions)
    /\ Called("add_deletions_section")
    /\ UNCHANGED held

\* when the method raises, the page keeps what the method had built
CallAddMutationListSection ==
    /\ MayCall("add_mutation_list_section")
    /\ page' = add_mutation_list_section(page, resistance_list).page
    /\ Called("add_mutation_list_section")
    /\ UNCHANGED held

CallAddLowQualitySection ==
    /\ MayCall("add_low_quality_section")
    /\ page' = add_low_quality_section(page, lowquals[1])
    /\ Called("add_low_quality_section")
    /\ UNCHANGED held

NextReport ==
    \/ CallReportLineage
    \/ CallAddCoverageSection
    \/ CallAddCoverageGapsSection
    \/ CallAddDeletionsSection
    \/ CallAddMutationListSection
    \/ CallAddLowQualitySection

SpecReport == InitReport /\ [][NextReport]_vars

----------------------------------------------------------------------------
(* SpecTables: the region, deletion and low-quality tables in full, one at a   *)
(* time, beside well-formed tables                                            *)

MaxTableRows == 2

\* regions of a gene of interest and of another gene, below, at and above 90.0
RegionRows ==
    {RegionLine(g, Num(50000), p) : g \in {1, 3}, p \in {Num(89999), Num(90000), Num(95000)}}

\* deletions of the two genes of interest and of another gene
DeletionRows ==
    {DeletionLine(g, "complete") : g \in {1, 2, 3}} \cup {DeletionLine(1, "partial")}

\* segments of this sample and of another one, and a line of the other sample that
\* ends behind its first field
LowQualRows ==
    {LowQualLine(s, r) : s \in {SampleName, 2}, r \in {"100", "200"}}
    \cup {Line(1, (0 :> 2))}

TableFilesOver(head, rows) == {File(head \o data) : data \in SeqsUpTo(rows, MaxTableRows)}

InitTables ==
    /\ ref_arg_file = GoodRefFile
    /\ ref_file = GoodRefFile
    /\ annotation_file = GoodAnnotFile
    /\ lineage_file = GoodLineageFile
    /\ loci_file = GoodLociFile
    /\ stats_file = GoodStatsFile
    /\ now = "2018-05-07 10:00:00"
    /\ \/ /\ region_file \in TableFilesOver(<<Header>>, RegionRows)
          /\ deletions_file = GoodDeletionsFile
          /\ lowqual_file = GoodLowQualFile
       \/ /\ region_file = GoodRegionFile
          /\ deletions_file \in TableFilesOver(<<Header>>, DeletionRows)
          /\ lowqual_file = GoodLowQualFile
       \/ /\ region_file = GoodRegionFile
          /\ deletions_file = GoodDeletionsFile
          /\ lowqual_file \in TableFilesOver(<<>>, LowQualRows)
    /\ Start

SpecTables == InitTables /\ [][Next]_vars

----------------------------------------------------------------------------
(* SpecTwice: the program run a second time, at a time of its own, on the     *)
(* files of its first run                                                     *)

MaxRerunObserved == 2

\* the values of str(datetime.datetime.now()) at the two runs
Stamps == {"2018-05-07 10:00:00", "2018-05-08 11:30:00"}

\* the program has ended, with a report or with an exception, and is started
\* again: nothing of the first run is left but the file it may have written
Rerun ==
    /\ pc \in {"done", "aborted"}
    /\ previous = <<>>
    /\ previous' = <<written>>
    /\ now' \in Stamps
    /\ pc' = "reference_list"
    /\ reference_list' = <<>>
    /\ pipeline_report' = <<>>
    /\ page' = <<>>
    /\ coverage' = <<>>
    /\ references' = <<>>
    /\ targets' = <<>>
    /\ index' = 0
    /\ gene_record' = <<>>
    /\ nuc_record' = <<>>
    /\ found' = FALSE
    /\ drug_list' = <<>>
    /\ resistance_list' = <<>>
    /\ lowquals' = <<>>
    /\ written' = <<>>
    /\ calls' = NoCalls
    /\ UNCHANGED <<ref_arg_file, ref_file, annotation_file, lineage_file, loci_file,
                   stats_file, region_file, deletions_file, lowqual_file>>

NextTwice ==
    \/ Next
    \/ Rerun

InitTwice ==
    /\ ref_arg_file = GoodRefFile
    /\ ref_file \in {GoodRefFile, File(<<Header, Header>>)}
    /\ annotation_file \in AnnotFilesOver(MatchAnnotRows, MaxRerunObserved)
    /\ lineage_file = GoodLineageFile
    /\ loci_file = GoodLociFile
    /\ stats_file = GoodStatsFile
    /\ region_file = GoodRegionFile
    /\ deletions_file = GoodDeletionsFile
    /\ lowqual_file \in {GoodLowQualFile, ShortLowQualFile}
    /\ now \in Stamps
    /\ Start

SpecTwice == InitTwice /\ [][NextTwice]_vars

----------------------------------------------------------------------------
(* What the claims speak of *)

\* the constructor of ResistanceList has loaded both tables
MatcherLoaded == index >= 1

\* the for loop of the matcher has seen every observed record
MatcherFinished == MatcherLoaded /\ index > Len(targets)

\* the reference rows of a gene and a change, in the order of the reference list
Matching(gene, nuchange) ==
    SelectSeq(references, LAMBDA r : r[1] = gene /\ r[2] = nuchange)

\* the records of the observed list the loop has seen so far
Seen == 1..(index - 1)

\* the groups the matcher holds: those of the result, then the open one
Groups ==
    IF MatcherLoaded /\ gene_record[1] # Placeholder
    THEN Append(resistance_list, gene_record)
    ELSE resistance_list

\* the change records of a group
Records(group) == Tail(group)

\* the drug lists attached to a change record
Attached(record) == Slice(record, 7)

InResult(gene) == \E k \in 1..Len(resistance_list) : resistance_list[k][1] = gene

ObservedOf(gene) == {i \in 1..Len(targets) : targets[i][1] = gene}

\* the data rows of a table behind its header lines
DataRows(file, header) == Slice(file.lines, header)

----------------------------------------------------------------------------
(* C1 *)

\* C1 (as claimed): once the matcher has finished, every observed mutation without
\* a matching reference row has a change record in a gene group of resistance_list.
C1_UnmatchedIncluded ==
    MatcherFinished =>
        \A i \in 1..Len(targets) :
            Matching(targets[i][1], targets[i][2]) = <<>> =>
                \E k \in 1..Len(resistance_list) :
                    /\ resistance_list[k][1] = targets[i][1]
                    /\ \E j \in 2..Len(resistance_list[k]) :
                           resistance_list[k][j][1] = targets[i][2]

----------------------------------------------------------------------------
(* C2 *)

\* one [drug, confidence(likelihood)] entry per matching row, in reference order
DrugCalls(gene, nuchange) ==
    [i \in 1..Len(Matching(gene, nuchange)) |->
        <<Matching(gene, nuchange)[i][4], confidence(Matching(gene, nuchange)[i][6])>>]

\* C2: the result of find_drug_resistances for the observed record just handled is
\* one entry per reference row of the same gene and change, all of them, in the
\* order of the reference list, found says whether there is any, and every drug
\* list attached to a change record is that list for its gene and change.
C2_AllMatchesInOrder ==
    /\ (MatcherLoaded /\ index >= 2) =>
           /\ drug_list = DrugCalls(targets[index - 1][1], targets[index - 1][2])
           /\ found = (Matching(targets[index - 1][1], targets[index - 1][2]) # <<>>)
           /\ found => nuc_record[Len(nuc_record)] = drug_list
    /\ \A k \in 1..Len(Groups) : \A j \in 1..Len(Records(Groups[k])) :
           \A a \in 1..Len(Attached(Records(Groups[k])[j])) :
               Attached(Records(Groups[k])[j])[a]
                   = DrugCalls(Groups[k][1], Records(Groups[k])[j][1])
    /\ (MatcherLoaded /\ gene_record[1] # Placeholder) =>
           \A a \in 1..Len(Attached(nuc_record)) :
               Attached(nuc_record)[a] = DrugCalls(gene_record[1], nuc_record[1])

\* two rows of different drugs match the observed change, a third row does not
C2_Witness ==
    /\ MatcherFinished
    /\ Len(drug_list) = 2
    /\ drug_list[1][1] # drug_list[2][1]
    /\ Attached(nuc_record) = <<drug_list>>

----------------------------------------------------------------------------
(* C3 *)

\* C3 (as claimed): a gene with exactly one observed record has no group in the
\* result, and every group of the result has more than one change record.
C3_SingleRecordDropped ==
    MatcherFinished =>
        /\ \A i \in 1..Len(targets) :
               Cardinality(ObservedOf(targets[i][1])) = 1 => ~InResult(targets[i][1])
        /\ \A k \in 1..Len(resistance_list) : Len(Records(resistance_list[k])) > 1

\* C3 (amended): a group is in the result only if a record of another gene follows
\* its gene in the sorted list and its last change record carries a drug list; so a
\* gene with one observed record is dropped when that record has no reference match
\* or when no other gene follows it, and not for having one record alone.
C3_AppendedOnlyWithDrugList ==
    /\ \A k \in 1..Len(resistance_list) :
           LET group == resistance_list[k]
           IN  /\ Len(group) >= 2
               /\ Len(group[Len(group)]) > 7
               /\ Matching(group[1], group[Len(group)][1]) # <<>>
               /\ \E i \in Seen : /\ targets[i][1] # group[1]
                                  /\ \E h \in 1..(i - 1) : targets[h][1] = group[1]
    /\ MatcherFinished =>
           \A i \in 1..Len(targets) :
               ( /\ Cardinality(ObservedOf(targets[i][1])) = 1
                 /\ \/ Matching(targets[i][1], targets[i][2]) = <<>>
                    \/ i = Len(targets) )
               => ~InResult(targets[i][1])

\* a gene with one observed record whose group is in the result, beside a gene with
\* one observed record whose group was dropped
C3_Witness ==
    /\ MatcherFinished
    /\ \E i, h \in 1..Len(targets) :
           /\ Cardinality(ObservedOf(targets[i][1])) = 1
           /\ InResult(targets[i][1])
           /\ Cardinality(ObservedOf(targets[h][1])) = 1
           /\ ~InResult(targets[h][1])
    /\ \E k \in 1..Len(resistance_list) : Len(Records(resistance_list[k])) = 1

----------------------------------------------------------------------------
(* C4 *)

\* the tiers as the claim states them, on thousandths
Tier(lr) ==
    CASE lr >= 10000 -> "High"
      [] lr >= 5000 /\ lr < 10000 -> "Medium"
      [] OTHER -> "Low"

\* C4: every call of the drug list of the record just handled has the tier of the
\* likelihood of its reference row: High from 10.0 up, Medium from 5.0 up to but not
\* 10.0, Low below; 10.0 is High, 5.0 is Medium and 4.999 is Low.
C4_ConfidenceTiers ==
    (MatcherLoaded /\ index >= 2) =>
        LET rows == Matching(targets[index - 1][1], targets[index - 1][2])
        IN  /\ Len(drug_list) = Len(rows)
            /\ \A i \in 1..Len(rows) :
                   /\ drug_list[i][2] = Tier(rows[i][6])
                   /\ rows[i][6] = 10000 => drug_list[i][2] = "High"
                   /\ rows[i][6] = 5000 => drug_list[i][2] = "Medium"
                   /\ rows[i][6] = 4999 => drug_list[i][2] = "Low"

\* rows of likelihood 10.0 and 5.0 both match: a High call and a Medium call
C4_Witness ==
    /\ MatcherFinished
    /\ Len(references) = 2
    /\ {references[1][6], references[2][6]} = {10000, 5000}
    /\ {drug_list[i][2] : i \in 1..Len(drug_list)} = {"High", "Medium"}

----------------------------------------------------------------------------
(* C5 *)

\* the number of times x occurs in the sequence s
Count(s, x) == Cardinality({i \in 1..Len(s) : s[i] = x})

\* the rows behind the two header lines, as the loader reads their columns
RefData == DataRows(ref_file, 2)

\* C5: once the reference table is loaded, the reference set is the rows behind the
\* two header lines whose p-value is below 0.05, each as often as the file has it;
\* no retained row has a p-value of 0.05 or more.
C5_OnlySignificantRetained ==
    MatcherLoaded =>
        /\ \A i \in 1..Len(references) : references[i][5] < 50
        /\ \A i \in 1..Len(RefData) :
               LET row == Mutation(RefData[i])
               IN  Count(references, row)
                       = IF RefData[i].f[22].val < 50
                         THEN Cardinality({h \in 1..Len(RefData) : Mutation(RefData[h]) = row})
                         ELSE 0
        /\ \A i \in 1..Len(references) :
               \E h \in 1..Len(RefData) : Mutation(RefData[h]) = references[i]

\* a table with a row of p-value exactly 0.05 and a row below it: one row retained
C5_Witness ==
    /\ MatcherLoaded
    /\ Len(RefData) = 2
    /\ Len(references) = 1
    /\ \E i \in 1..2 : RefData[i].f[22].val = 50

----------------------------------------------------------------------------
(* C6 *)

FirstOfGene(gene) ==
    CHOOSE i \in 1..Len(targets) :
        targets[i][1] = gene /\ \A h \in 1..(i - 1) : targets[h][1] # gene

FirstOfChange(gene, nuchange) ==
    CHOOSE i \in 1..Len(targets) :
        /\ targets[i][1] = gene /\ targets[i][2] = nuchange
        /\ \A h \in 1..(i - 1) : ~(targets[h][1] = gene /\ targets[h][2] = nuchange)

\* C6: the groups the matcher holds are of observed genes, in the order in which
\* the genes first appear in the sorted observed list, and the change records of a
\* group are of changes observed for its gene, in the order of their first
\* appearance.
C6_FirstAppearanceOrder ==
    /\ \A k \in 1..Len(Groups) :
           /\ \E i \in 1..Len(targets) : targets[i][1] = Groups[k][1]
           /\ \A l \in (k + 1)..Len(Groups) :
                  FirstOfGene(Groups[k][1]) < FirstOfGene(Groups[l][1])
    /\ \A k \in 1..Len(Groups) :
           LET gene == Groups[k][1]
               recs == Records(Groups[k])
           IN  /\ \A j \in 1..Len(recs) :
                      \E i \in 1..Len(targets) :
                          targets[i][1] = gene /\ targets[i][2] = recs[j][1]
               /\ \A j \in 1..Len(recs) : \A m \in (j + 1)..Len(recs) :
                      FirstOfChange(gene, recs[j][1]) < FirstOfChange(gene, recs[m][1])

\* two gene groups in the result, from a table whose rows were not in sorted order
C6_Witness ==
    /\ MatcherFinished
    /\ Len(resistance_list) = 2
    /\ DataRows(annotation_file, 1)[1].f[16] > DataRows(annotation_file, 1)[2].f[16]

----------------------------------------------------------------------------
(* C7 *)

\* C7 (as claimed): every change record has a drug-call sequence, which is empty
\* when no reference row matches the record.
C7_EmptySequencePresent ==
    \A k \in 1..Len(Groups) : \A j \in 1..Len(Records(Groups[k])) :
        LET record == Records(Groups[k])[j]
        IN  /\ Len(record) >= 8
            /\ Matching(Groups[k][1], record[1]) = <<>> => record[8] = <<>>

HasResistance(elt) == \E c \in 1..Len(elt.children) : elt.children[c].tag = "resistance"

\* C7 (amended): a change record without a reference match has no drug-call
\* sequence at all, only its seven observed fields, and its nuchange element in the
\* mutations section has no resistance element.
C7_NoSequenceWithoutMatch ==
    /\ \A k \in 1..Len(Groups) : \A j \in 1..Len(Records(Groups[k])) :
           LET record == Records(Groups[k])[j]
           IN  Matching(Groups[k][1], record[1]) = <<>> => Len(record) = 7
    /\ (MatcherLoaded /\ gene_record[1] # Placeholder
          /\ Matching(gene_record[1], nuc_record[1]) = <<>>) => Len(nuc_record) = 7
    /\ pc \in {"add_low_quality_section", "write_report_xml", "done"} =>
           \A s \in 1..Len(page[mutations_elt].children) :
               LET snp == page[mutations_elt].children[s]
               IN  \A c \in 1..Len(snp.children) :
                       Matching(snp.attrib[1][2], snp.children[c].attrib[1][2]) = <<>>
                           => /\ ~HasResistance(snp.children[c])
                              /\ Len(snp.children[c].children) = 5

\* the report is written with a group of the result that holds a change without a
\* reference match
C7_Witness ==
    /\ pc = "done"
    /\ \E k \in 1..Len(resistance_list) : \E j \in 2..Len(resistance_list[k]) :
           /\ Matching(resistance_list[k][1], resistance_list[k][j][1]) = <<>>
           /\ Len(resistance_list[k][j]) = 7
    /\ \E s \in 1..Len(written[1][mutations_elt].children) :
           \E c \in 1..Len(written[1][mutations_elt].children[s].children) :
               ~HasResistance(written[1][mutations_elt].children[s].children[c])

----------------------------------------------------------------------------
(* C8 *)

\* a drug list attached to a record of the gene and the change
AttachedProperly(gene, record) ==
    \A a \in 1..Len(Attached(record)) :
        /\ Matching(gene, record[1]) # <<>>
        /\ Attached(record)[a] # <<>>
        /\ \A e \in 1..Len(Attached(record)[a]) :
               /\ \E r \in 1..Len(references) :
                      /\ references[r][1] = gene /\ references[r][2] = record[1]
                      /\ references[r][4] = Attached(record)[a][e][1]
               /\ \A r \in 1..Len(references) :
                      references[r][4] = Attached(record)[a][e][1]
                          => references[r][1] = gene /\ references[r][2] = record[1]

\* C8: in every state of the matcher, a change record has a drug list attached only
\* if a reference row matches its gene and change; no attached list is empty and
\* each of its drugs is that of a matching row, never of a row of another gene or
\* change (every gene and change has a drug of its own here).
C8_AttachedOnlyOnMatch ==
    /\ \A k \in 1..Len(Groups) : \A j \in 1..Len(Records(Groups[k])) :
           AttachedProperly(Groups[k][1], Records(Groups[k])[j])
    /\ (MatcherLoaded /\ gene_record[1] # Placeholder) =>
           AttachedProperly(gene_record[1], nuc_record)

\* a record with a drug list beside a record without one, rows of other changes in
\* the reference list
C8_Witness ==
    /\ pc = "match"
    /\ Len(references) = 2
    /\ references[1][4] # references[2][4]
    /\ Len(gene_record) = 2
    /\ Len(gene_record[2]) = 7
    /\ Len(nuc_record) = 8

----------------------------------------------------------------------------
(* C9 *)

\* one of the tables the program loads is malformed or missing
SomeTableFails ==
    \/ ref_arg_file # GoodRefFile
    \/ ref_file # GoodRefFile
    \/ annotation_file # GoodAnnotFile
    \/ lineage_file # GoodLineageFile
    \/ loci_file # GoodLociFile
    \/ stats_file # GoodStatsFile
    \/ region_file # GoodRegionFile
    \/ deletions_file # GoodDeletionsFile
    \/ lowqual_file # GoodLowQualFile

TopLevelTags(pg) == [i \in 1..Len(pg) |-> pg[i].tag]

\* C9: when a table load fails the program never reaches write_report_xml and no
\* report is written; a report is written only once every load has bound its table
\* and every section builder has run, and it is the whole page.
C9_NoReportAfterFailedLoad ==
    /\ SomeTableFails =>
           /\ written = <<>>
           /\ pc \notin {"write_report_xml", "done"}
    /\ pc = "aborted" => written = <<>>
    /\ written # <<>> =>
           /\ pc = "done"
           /\ reference_list # <<>> /\ pipeline_report # <<>> /\ coverage # <<>>
           /\ lowquals # <<>> /\ MatcherFinished
           /\ written[1] = page
           /\ TopLevelTags(page) = <<"title", "sample_id", "date", "pipeline", "lineage",
                                     "coverage", "coverage_gaps", "deletions",
                                     "mutations", "low_quality">>
           /\ Len(page[lineage_elt].children) = 2
           /\ Len(page[coverage_elt].children) = 1 + Len(coverage[1].coverage_dict)
           /\ Len(page[coverage_gaps_elt].children) = Len(coverage[1].coverage_gaps)
           /\ Len(page[deletions_elt].children) = Len(coverage[1].deletions)
           /\ Len(page[mutations_elt].children) = Len(resistance_list)
           /\ Len(page[10].children) = Len(lowquals[1])

\* the last load, of the low-quality table, fails after all the others succeeded:
\* the program has stopped without a report
C9_Witness ==
    /\ pc = "aborted"
    /\ MatcherFinished
    /\ coverage # <<>>
    /\ lowquals = <<>>
    /\ written = <<>>

----------------------------------------------------------------------------
(* C10 *)

\* a data row of the reference table whose p-value or likelihood is no number
RefRowUnparsable(line) ==
    /\ HasField(line, 22)
    /\ ~line.f[22].num \/ ~line.f[17].num

RefTableMalformed ==
    /\ ref_arg_file.exists
    /\ \E i \in 1..Len(DataRows(ref_arg_file, 2)) :
           RefRowUnparsable(DataRows(ref_arg_file, 2)[i])

\* a data row of the annotation table that ends before the gene column
AnnotTableMalformed ==
    /\ annotation_file.exists
    /\ \E i \in 1..Len(DataRows(annotation_file, 1)) :
           DataRows(annotation_file, 1)[i].n < 17

\* C10: a reference table with a data row whose p-value or likelihood does not
\* parse never yields a table, whatever the rows before and after it, and the
\* program stops at that load; likewise an annotation table with a short data row.
C10_LoadsAllOrNothing ==
    /\ RefTableMalformed =>
           /\ reference_list = <<>>
           /\ references = <<>>
           /\ pc \in {"reference_list", "aborted"}
    /\ AnnotTableMalformed =>
           /\ pipeline_report = <<>>
           /\ targets = <<>>
           /\ pc \in {"reference_list", "pipeline_report", "aborted"}

\* the load of an annotation table with a short row between two well-formed rows
\* has failed, after the reference table had loaded
C10_Witness ==
    /\ pc = "aborted"
    /\ reference_list # <<>>
    /\ Len(reference_list[1]) >= 1
    /\ Len(DataRows(annotation_file, 1)) = 3
    /\ DataRows(annotation_file, 1)[1].n = 17
    /\ DataRows(annotation_file, 1)[2].n < 17
    /\ DataRows(annotation_file, 1)[3].n = 17
    /\ pipeline_report = <<>>

----------------------------------------------------------------------------
(* C11 *)

\* the sequence s, k times over
RECURSIVE Times(_, _)
Times(s, k) == IF k = 0 THEN <<>> ELSE Times(s, k - 1) \o s

\* the entries each builder makes of its input, in the order of the input
CoverageEntries(c) ==
    <<CoverageGene("whole_genome", <<c.genome_depth, c.genome_percentage>>)>>
    \o [i \in 1..Len(c.coverage_dict) |->
            CoverageGene(c.coverage_dict[i][1], c.coverage_dict[i][2])]

GapEntries(c) ==
    [i \in 1..Len(c.coverage_gaps) |->
        CoverageGene(c.coverage_gaps[i][1], c.coverage_gaps[i][2])]

DeletionEntries(c) == [i \in 1..Len(c.deletions) |-> DeletionLoci(c.deletions[i])]

SegmentEntries(list) == [i \in 1..Len(list) |-> Segment(list[i])]

\* a group with a change record of fewer than seven fields
GroupRaises(group) == \E j \in 2..Len(group) : Len(group[j]) < 7

ListRaises(list) == \E i \in 1..Len(list) : GroupRaises(list[i])

\* the groups add_mutation_list_section gets to: all of them, or those up to the
\* first one it raises on
GroupsBuilt(list) ==
    IF ListRaises(list)
    THEN CHOOSE i \in 1..Len(list) :
             GroupRaises(list[i]) /\ \A h \in 1..(i - 1) : ~GroupRaises(list[h])
    ELSE Len(list)

\* the change records of a group it gets to, likewise
RecordsBuilt(group) ==
    IF GroupRaises(group)
    THEN CHOOSE j \in 1..(Len(group) - 1) :
             Len(group[j + 1]) < 7 /\ \A h \in 1..(j - 1) : Len(group[h + 1]) >= 7
    ELSE Len(group) - 1

SnpEntry(group) ==
    Element("snp", <<<<"gene", group[1]>>>>, <<>>,
            [j \in 1..RecordsBuilt(group) |->
                IF Len(group[j + 1]) < 7 THEN NuchangeCut(group[j + 1])
                ELSE Nuchange(group[j + 1])])

MutationEntries(list) == [i \in 1..GroupsBuilt(list) |-> SnpEntry(list[i])]

\* the low_quality elements of the page, in document order
LowQualitySections(pg) == SelectSeq(pg, LAMBDA e : e.tag = "low_quality")

\* the four builders that write to an element the constructor made
SectionsAppended ==
    /\ page[coverage_elt].children
           = Times(CoverageEntries(coverage[1]), calls["add_coverage_section"])
    /\ page[coverage_gaps_elt].children
           = Times(GapEntries(coverage[1]), calls["add_coverage_gaps_section"])
    /\ page[deletions_elt].children
           = Times(DeletionEntries(coverage[1]), calls["add_deletions_section"])

\* C11 (as claimed): every builder appends the entries of its input, in the order
\* of the input, behind the entries its section holds already; after two calls with
\* the same input that one section holds every entry twice.  (Mutation lists the
\* builder raises on are left out of the statement.)
C11_EveryBuilderAppends ==
    /\ SectionsAppended
    /\ ~ListRaises(resistance_list) =>
           page[mutations_elt].children
               = Times(MutationEntries(resistance_list), calls["add_mutation_list_section"])
    /\ calls["add_low_quality_section"] >= 1 =>
           /\ Len(LowQualitySections(page)) = 1
           /\ LowQualitySections(page)[1].children
                  = Times(SegmentEntries(lowquals[1]), calls["add_low_quality_section"])

\* C11 (amended): the builders of coverage, coverage gaps, deletions and mutations
\* append the entries of their input, in its order, behind the entries of their
\* section (the mutation builder up to the record it raises on, if any), so two
\* calls leave every entry twice; add_low_quality_section makes a new low_quality
\* element at the end of the document at every call and fills it with the entries
\* of its input, so two calls leave two low_quality elements, each holding every
\* entry once.
C11_AppendsOrNewSection ==
    /\ SectionsAppended
    /\ page[mutations_elt].children
           = Times(MutationEntries(resistance_list), calls["add_mutation_list_section"])
    /\ Len(page) = 9 + calls["add_low_quality_section"]
    /\ \A i \in 10..Len(page) :
           page[i] = Element("low_quality", <<>>, <<>>, SegmentEntries(lowquals[1]))

\* coverage gaps and low-quality segments, two entries each, added twice over
C11_Witness ==
    /\ calls["add_coverage_gaps_section"] = 2
    /\ Len(coverage[1].coverage_gaps) = 2
    /\ Len(page[coverage_gaps_elt].children) = 4
    /\ calls["add_low_quality_section"] = 2
    /\ Len(lowquals[1]) = 2
    /\ Len(LowQualitySections(page)) = 2

----------------------------------------------------------------------------
(* C12 *)

EveryMethodCalledOnce == \A m \in Methods : calls[m] = 1

\* C12: once report_lineage and each of the five section builders have been called
\* exactly once on a fresh report, whatever the order of the calls, the top-level
\* elements of the document are title, sample_id, date, pipeline, lineage, coverage,
\* coverage_gaps, deletions, mutations, low_quality, in this order.
C12_TopLevelOrder ==
    EveryMethodCalledOnce =>
        TopLevelTags(page) = <<"title", "sample_id", "date", "pipeline", "lineage",
                               "coverage", "coverage_gaps", "deletions", "mutations",
                               "low_quality">>

\* every method has been called once and every section but an empty one is filled
C12_Witness ==
    /\ EveryMethodCalledOnce
    /\ Len(page) = 10
    /\ Len(page[lineage_elt].children) = 2
    /\ Len(page[coverage_elt].children) = 3
    /\ Len(page[mutations_elt].children) = 2
    /\ Len(page[10].children) = 2

----------------------------------------------------------------------------
(* C13 *)

\* the child of self.page a method writes to; add_low_quality_section writes to
\* none of those the page has
SectionOf(method) ==
    CASE method = "report_lineage" -> lineage_elt
      [] method = "add_coverage_section" -> coverage_elt
      [] method = "add_coverage_gaps_section" -> coverage_gaps_elt
      [] method = "add_deletions_section" -> deletions_elt
      [] method = "add_mutation_list_section" -> mutations_elt
      [] OTHER -> 0

\* C13: a call of a method of the report changes the one section of that method
\* and leaves the title, the sample id, the date, the pipeline, the lineage and
\* every other section as they were (add_low_quality_section adds its element
\* behind them); and whether add_mutation_list_section raises depends on its own
\* input alone, not on what the other sections hold.
C13_SectionsIndependent ==
    [][ /\ \A m \in Methods :
               calls'[m] # calls[m] =>
                   /\ \A i \in 1..Len(page) : i # SectionOf(m) => page'[i] = page[i]
                   /\ Len(page') = Len(page)
                                     + (IF m = "add_low_quality_section" THEN 1 ELSE 0)
                   /\ SectionOf(m) # 0 =>
                          /\ page'[SectionOf(m)].tag = page[SectionOf(m)].tag
                          /\ Len(page'[SectionOf(m)].children)
                                 >= Len(page[SectionOf(m)].children)
        /\ add_mutation_list_section(page, resistance_list).raised
               = ListRaises(resistance_list)
      ]_vars

\* the genes the entries of a list name
Named(list) == {list[i][1] : i \in 1..Len(list)}

\* the mutations were added, without an exception, to a page whose coverage,
\* coverage gaps and deletions name none of their genes
C13_Witness ==
    /\ calls["add_coverage_section"] >= 1
    /\ calls["add_coverage_gaps_section"] >= 1
    /\ calls["add_deletions_section"] >= 1
    /\ calls["add_mutation_list_section"] = 1
    /\ ~ListRaises(resistance_list)
    /\ Len(page[mutations_elt].children) = 2
    /\ Len(page[coverage_gaps_elt].children) >= 1
    /\ Len(page[deletions_elt].children) >= 1
    /\ Named(resistance_list)
         \cap (Named(coverage[1].coverage_dict) \cup Named(coverage[1].coverage_gaps)
               \cup Named(coverage[1].deletions)) = {}

----------------------------------------------------------------------------
(* C14 *)

\* the rows of the region table whose percentage is below 90.0, in file order
GapRows == SelectSeq(DataRows(region_file, 1), LAMBDA row : row.f[6].val < 90000)

\* C14: once the coverage is loaded, the coverage-gap list has one entry (region,
\* depth, percentage) for each row of the region table whose percentage is below
\* 90.0, in file order, whether or not the region is a gene of interest, and no
\* entry of a region at 90.0 or above.
C14_GapsBelowNinety ==
    coverage # <<>> =>
        /\ coverage[1].coverage_gaps
               = [i \in 1..Len(GapRows) |->
                     <<GapRows[i].f[3], <<GapRows[i].f[5].val, GapRows[i].f[6].val>>>>]
        /\ \A i \in 1..Len(coverage[1].coverage_gaps) :
               coverage[1].coverage_gaps[i][2][2] < 90000

\* a gene of interest at exactly 90.0 and another region just below it: the one
\* gap is that of the other region
C14_Witness ==
    /\ coverage # <<>>
    /\ Len(DataRows(region_file, 1)) = 2
    /\ DataRows(region_file, 1)[1].f[6].val = 90000
    /\ InList(DataRows(region_file, 1)[1].f[3], loci_file.lines)
    /\ DataRows(region_file, 1)[2].f[6].val = 89999
    /\ ~InList(DataRows(region_file, 1)[2].f[3], loci_file.lines)
    /\ Len(coverage[1].coverage_gaps) = 1
    /\ coverage[1].coverage_gaps[1][1] = DataRows(region_file, 1)[2].f[3]

----------------------------------------------------------------------------
(* C15 *)

\* the rows of the deletion table of a gene of the allow-list, in file order
AllowedDeletions ==
    SelectSeq(DataRows(deletions_file, 1), LAMBDA row : InList(row.f[15], loci_file.lines))

\* C15: once the coverage is loaded, every entry of the deletion list and every key
\* of the per-gene coverage map is a gene of the allow-list, and the deletion list
\* has one entry (gene, type) for each row of the deletion table whose gene is in
\* the allow-list, in file order.
C15_OnlyGenesOfInterest ==
    coverage # <<>> =>
        /\ \A i \in 1..Len(coverage[1].deletions) :
               InList(coverage[1].deletions[i][1], loci_file.lines)
        /\ \A i \in 1..Len(coverage[1].coverage_dict) :
               InList(coverage[1].coverage_dict[i][1], loci_file.lines)
        /\ coverage[1].deletions
               = [i \in 1..Len(AllowedDeletions) |->
                     <<AllowedDeletions[i].f[15], AllowedDeletions[i].f[8]>>]

\* a deletion of another gene ahead of a deletion of a gene of interest, and a
\* region table that names another gene too
C15_Witness ==
    /\ coverage # <<>>
    /\ Len(DataRows(deletions_file, 1)) = 2
    /\ ~InList(DataRows(deletions_file, 1)[1].f[15], loci_file.lines)
    /\ Len(coverage[1].deletions) = 1
    /\ \E i \in 1..Len(DataRows(region_file, 1)) :
           ~InList(DataRows(region_file, 1)[i].f[3], loci_file.lines)
    /\ Len(coverage[1].coverage_dict) = 1

----------------------------------------------------------------------------
(* C16 *)

\* the rows of the low-quality table whose first field is the sample, in file order
SampleRows == SelectSeq(lowqual_file.lines, LAMBDA row : row.f[0] = SampleName)

\* C16: once the low-quality table is loaded, the segment list has one entry, the
\* first five fields, for each row of the table whose sample-id field is the
\* current sample, in file order, and no entry of a row of another sample.
C16_OnlyThisSample ==
    lowquals # <<>> =>
        /\ lowquals[1]
               = [i \in 1..Len(SampleRows) |->
                     <<SampleRows[i].f[0], SampleRows[i].f[1], SampleRows[i].f[2],
                       SampleRows[i].f[3], SampleRows[i].f[4]>>]
        /\ \A i \in 1..Len(lowquals[1]) : lowquals[1][i][1] = SampleName

\* a row of another sample ahead of a row of this sample: one segment
C16_Witness ==
    /\ lowquals # <<>>
    /\ Len(lowqual_file.lines) = 2
    /\ lowqual_file.lines[1].f[0] # SampleName
    /\ lowqual_file.lines[1].n = 5
    /\ lowqual_file.lines[2].f[0] = SampleName
    /\ Len(lowquals[1]) = 1

----------------------------------------------------------------------------
(* C17 *)

\* two documents that differ at most in the text of their date element
SameButDate(a, b) ==
    /\ Len(a) = Len(b)
    /\ \A i \in 1..Len(a) :
           IF a[i].tag = "date"
           THEN b[i].tag = "date" /\ a[i].attrib = b[i].attrib
                                  /\ a[i].children = b[i].children
           ELSE a[i] = b[i]

\* C17: when the program has run twice on the same files, the second run writes a
\* report exactly if the first did, and the two documents are the same in every
\* element but the date.
C17_SameDocumentButDate ==
    previous # <<>> =>
        /\ pc = "done" =>
               /\ previous[1] # <<>>
               /\ SameButDate(previous[1][1], written[1])
        /\ pc = "aborted" => previous[1] = <<>> /\ written = <<>>

\* both runs wrote a report with a gene in its mutations section, at different times
C17_Witness ==
    /\ pc = "done"
    /\ previous # <<>>
    /\ previous[1] # <<>>
    /\ previous[1][1][3].text # written[1][3].text
    /\ Len(written[1][mutations_elt].children) >= 1
    /\ Len(written[1]) = 10

----------------------------------------------------------------------------
(* C18 *)

\* the genes of the observed records the loop has seen
SeenGenes == {targets[i][1] : i \in Seen}

\* the change of the last record of the gene in the sorted observed list
LastChangeOf(gene) ==
    targets[CHOOSE i \in ObservedOf(gene) : \A h \in ObservedOf(gene) : h <= i][2]

\* a record of another gene, behind the records of the gene, has been seen
FollowedByOtherGene(gene) ==
    \E i, h \in Seen : i < h /\ targets[i][1] = gene /\ targets[h][1] # gene

\* C18: at every turn of the loop and at its end, the group of a gene is in
\* resistance_list exactly if (a) a record of another gene behind it has been seen
\* and (b) a reference row matches the last change of the gene; so the group of
\* the last gene of the observed list is never in the result, and a gene whose
\* last change has no match is not in it, whatever matches its other changes had.
C18_AppendedIffFollowedAndMatched ==
    MatcherLoaded =>
        /\ \A gene \in SeenGenes :
               InResult(gene)
                   <=> /\ FollowedByOtherGene(gene)
                       /\ Matching(gene, LastChangeOf(gene)) # <<>>
        /\ \A k \in 1..Len(resistance_list) : resistance_list[k][1] \in SeenGenes
        /\ Len(targets) >= 1 => ~InResult(targets[Len(targets)][1])

\* a gene with a matched change and then an unmatched one, followed by a last gene
\* whose change has a match: neither group is in the result
C18_Witness ==
    /\ MatcherFinished
    /\ Len(targets) = 3
    /\ targets[1][1] = targets[2][1]
    /\ targets[3][1] # targets[2][1]
    /\ Matching(targets[1][1], targets[1][2]) # <<>>
    /\ Matching(targets[2][1], targets[2][2]) = <<>>
    /\ Matching(targets[3][1], targets[3][2]) # <<>>
    /\ resistance_list = <<>>

----------------------------------------------------------------------------
(* C19 *)

\* C19: among the groups the matcher holds, those of the result and the open one,
\* no two are of the same gene, and within a group no two change records are of
\* the same nuc_change.
C19_NoDuplicateGroups ==
    /\ \A k, l \in 1..Len(Groups) : Groups[k][1] = Groups[l][1] => k = l
    /\ \A k, l \in 1..Len(resistance_list) :
           resistance_list[k][1] = resistance_list[l][1] => k = l
    /\ \A k \in 1..Len(Groups) :
           \A j, m \in 1..Len(Records(Groups[k])) :
               Records(Groups[k])[j][1] = Records(Groups[k])[m][1] => j = m
    /\ (MatcherLoaded /\ gene_record[1] # Placeholder) =>
           \A j \in 1..Len(Records(gene_record)) :
               Records(gene_record)[j][1] # nuc_record[1]

\* the two rows of a gene, of different changes, stood apart in the file around a
\* row of another gene: the matcher holds one group for the gene, with one record
\* for each change
C19_Witness ==
    /\ pc = "match"
    /\ Len(DataRows(annotation_file, 1)) = 3
    /\ DataRows(annotation_file, 1)[1].f[16] = DataRows(annotation_file, 1)[3].f[16]
    /\ DataRows(annotation_file, 1)[1].f[16] # DataRows(annotation_file, 1)[2].f[16]
    /\ index = 3
    /\ Len(Groups) = 1
    /\ Len(gene_record) = 2
    /\ gene_record[2][1] # nuc_record[1]

----------------------------------------------------------------------------
(* C20 *)

\* the observed records of the gene and the change
ObservedRecords(gene, nuchange) ==
    {i \in 1..Len(targets) : targets[i][1] = gene /\ targets[i][2] = nuchange}

\* the resistance elements of a nuchange element
Resistances(elt) == SelectSeq(elt.children, LAMBDA child : child.tag = "resistance")

\* C20: the observed records of one gene and nuc_change make one change record,
\* which gets the drug list once for each of them; and in the mutations section of
\* the document its nuchange element holds one resistance element for each
\* matching reference row, in reference order, however many observed records there
\* were.
C20_DuplicatesMerged ==
    /\ MatcherFinished =>
           \A k \in 1..Len(resistance_list) :
               \A j \in 1..Len(Records(resistance_list[k])) :
                   LET gene == resistance_list[k][1]
                       record == Records(resistance_list[k])[j]
                   IN  /\ \A m \in 1..Len(Records(resistance_list[k])) :
                              Records(resistance_list[k])[m][1] = record[1] => m = j
                       /\ Len(Attached(record))
                              = IF Matching(gene, record[1]) = <<>> THEN 0
                                ELSE Cardinality(ObservedRecords(gene, record[1]))
    /\ pc \in {"add_low_quality_section", "write_report_xml", "done"} =>
           /\ Len(page[mutations_elt].children) = Len(resistance_list)
           /\ \A s \in 1..Len(page[mutations_elt].children) :
                  LET snp == page[mutations_elt].children[s]
                      gene == snp.attrib[1][2]
                  IN  /\ gene = resistance_list[s][1]
                      /\ Len(snp.children) = Len(Records(resistance_list[s]))
                      /\ \A c \in 1..Len(snp.children) :
                             Resistances(snp.children[c])
                                 = [r \in 1..Len(Matching(gene, snp.children[c].attrib[1][2])) |->
                                       Resistance(DrugCalls(gene, snp.children[c].attrib[1][2])[r])]

\* a change observed twice, with one matching reference row: its record carries
\* the drug list twice and its nuchange element holds one resistance element
C20_Witness ==
    /\ pc = "done"
    /\ Len(resistance_list) = 1
    /\ Len(resistance_list[1]) = 2
    /\ Cardinality(ObservedRecords(resistance_list[1][1], resistance_list[1][2][1])) = 2
    /\ Len(Attached(resistance_list[1][2])) = 2
    /\ Len(Matching(resistance_list[1][1], resistance_list[1][2][1])) = 1
    /\ Len(written[1][mutations_elt].children) = 1
    /\ Len(Resistances(written[1][mutations_elt].children[1].children[1])) = 1

=============================================================================
